---------------------------- MODULE Spec2Model ----------------------------
(***************************************************************************)
(* Model of utils/version.py (class VersionCheck), of                      *)
(* utils/configuration.py and of utils/http.py (class HTTPy).              *)
(*                                                                         *)
(* A Python str is a sequence of one-character strings: "1.0a" is          *)
(* <<"1", ".", "0", "a">>.  Python's None is the value None below, which   *)
(* is not a sequence of characters.  A call either returns a value or      *)
(* raises; both outcomes are values of the form [exc |-> ..., val |-> ...].*)
(***************************************************************************)
EXTENDS Integers, Sequences, FiniteSets, TLC

(***************************************************************************)
(* Characters                                                              *)
(***************************************************************************)
Digits == <<"0", "1", "2", "3", "4", "5", "6", "7", "8", "9">>

Upper == <<"A", "B", "C", "D", "E", "F", "G", "H", "I", "J", "K", "L", "M",
           "N", "O", "P", "Q", "R", "S", "T", "U", "V", "W", "X", "Y", "Z">>

Lower == <<"a", "b", "c", "d", "e", "f", "g", "h", "i", "j", "k", "l", "m",
           "n", "o", "p", "q", "r", "s", "t", "u", "v", "w", "x", "y", "z">>

\* The characters of the model in code-point order: space 32, * 42, + 43,
\* - 45, . 46, 0-9 48..57, A-Z 65..90, _ 95, a-z 97..122.
Ascii == <<" ", "*", "+", "-", ".">> \o Digits \o Upper \o <<"_">> \o Lower

Range(f) == {f[i] : i \in DOMAIN f}

DigitSet == Range(Digits)
LetterSet == Range(Upper) \cup Range(Lower)
CharSet == Range(Ascii)

\* An order-preserving stand-in for ord(c).
Ord == [c \in CharSet |-> CHOOSE i \in DOMAIN Ascii : Ascii[i] = c]

DigitVal == [c \in DigitSet |-> (CHOOSE i \in DOMAIN Digits : Digits[i] = c) - 1]

\* str.lower() on one character.
LowerChar == [c \in CharSet |->
                IF c \in Range(Upper)
                  THEN Lower[CHOOSE i \in DOMAIN Upper : Upper[i] = c]
                  ELSE c]

LowerStr(s) == [i \in DOMAIN s |-> LowerChar[s[i]]]

None == <<"<None>">>

\* s[i:j] with positions 1..Len(s)+1: the characters from i up to, not
\* including, j.
Slice(s, i, j) == SubSeq(s, i, j - 1)

At(s, i) == IF i \in DOMAIN s THEN s[i] ELSE ""

\* Python's lexicographic order on str.
RECURSIVE StrLess(_, _)
StrLess(s, t) ==
    IF t = <<>> THEN FALSE
    ELSE IF s = <<>> THEN TRUE
    ELSE IF Ord[Head(s)] # Ord[Head(t)] THEN Ord[Head(s)] < Ord[Head(t)]
    ELSE StrLess(Tail(s), Tail(t))

\* "*" in s
HasStar(s) == \E i \in DOMAIN s : s[i] = "*"

(***************************************************************************)
(* _PATTERN                                                                *)
(***************************************************************************)
\* The least element of a set of positive numbers, 0 for the empty set.
First(hits) == IF hits = {} THEN 0 ELSE CHOOSE k \in hits : \A h \in hits : k <= h

\* \d+ from position i: the position after the longest run of digits.
RECURSIVE DigitsEnd(_, _)
DigitsEnd(s, i) ==
    IF At(s, i) \in DigitSet THEN DigitsEnd(s, i + 1) ELSE i

\* (?:\.\d+) at position i: the position after it, or i when it does not match.
DotNumEnd(s, i) ==
    IF At(s, i) = "." /\ At(s, i + 1) \in DigitSet THEN DigitsEnd(s, i + 1) ELSE i

\* (?:(?:\.\*)|(?:\.\d+))? at position e3.
LastPartEnd(s, e3) ==
    IF At(s, e3) = "." /\ At(s, e3 + 1) = "*" THEN e3 + 2 ELSE DotNumEnd(s, e3)

\* (?:(?:\.\d+){0,2})(?:(?:\.\*)|(?:\.\d+))? after \d+ has matched up to e1;
\* 1 when \d+ did not match.
NumericFrom(s, e1) ==
    IF e1 = 1 THEN 1 ELSE LastPartEnd(s, DotNumEnd(s, DotNumEnd(s, e1)))

\* Group 1 of _PATTERN from position 1.
NumericEnd(s) == NumericFrom(s, DigitsEnd(s, 1))

SuffixRunSet == DigitSet \cup LetterSet \cup {"_", "-", "+"}
DelimSet == {"-", "_", "+"}

RECURSIVE RunEnd(_, _)
RunEnd(s, i) ==
    IF At(s, i) \in SuffixRunSet THEN RunEnd(s, i + 1) ELSE i

\* Group 2 of _PATTERN from position i:
\* (?:[a-zA-Z]{1}|\*)|(?:(?:-|_|\+)(?:[a-zA-Z0-9_\-\+]+|\*)) ; i when absent.
SuffixEnd(s, i) ==
    IF At(s, i) \in LetterSet \cup {"*"} THEN i + 1
    ELSE IF At(s, i) \in DelimSet
      THEN IF At(s, i + 1) \in SuffixRunSet THEN RunEnd(s, i + 1)
           ELSE IF At(s, i + 1) = "*" THEN i + 2
           ELSE i
    ELSE i

SuffixFrom(s, n) == IF n = 1 THEN 1 ELSE SuffixEnd(s, n)

\* re.match(_PATTERN, v): the end of the match, 1 when there is none.
PatternEnd(s) == SuffixFrom(s, NumericEnd(s))

\* The match ends at $.
EndsAt(v, e) == e > 1 /\ e = Len(v) + 1

is_valid(v) == EndsAt(v, PatternEnd(v))

\* (match.group(1), match.group(2)) of a match with group 1 up to n and the
\* whole up to e.
Groups(v, n, e) == <<Slice(v, 1, n), IF e = n THEN None ELSE Slice(v, n, e)>>

GroupsFrom(v, n) == Groups(v, n, SuffixEnd(v, n))

\* _split_suffix(v), for v that matches.
_split_suffix(v) == GroupsFrom(v, NumericEnd(v))

(***************************************************************************)
(* packaging.version: VERSION_PATTERN and Version's ordering key           *)
(***************************************************************************)
\* int(s) for a run of digits.
RECURSIVE ToInt(_)
ToInt(s) ==
    IF s = <<>> THEN 0
    ELSE 10 * ToInt(SubSeq(s, 1, Len(s) - 1)) + DigitVal[s[Len(s)]]

\* The keyword kw at position i, ignoring case (re.IGNORECASE).
KwAt(s, i, kw) ==
    /\ i + Len(kw) - 1 <= Len(s)
    /\ \A k \in DOMAIN kw : LowerChar[s[i + k - 1]] = kw[k]

\* pre_l, post_l and dev_l with the letter _parse_letter_version turns each
\* into; of two keywords that match at one place only the longer can be
\* followed by the rest of the pattern.
PreKeywords ==
    << <<"preview", "rc">>, <<"alpha", "a">>, <<"beta", "b">>, <<"pre", "rc">>,
       <<"rc", "rc">>, <<"a", "a">>, <<"b", "b">>, <<"c", "rc">> >>
PostKeywords == << <<"post", "post">>, <<"rev", "post">>, <<"r", "post">> >>
DevKeywords == << <<"dev", "dev">> >>

Chars(w) ==
    CASE w = "preview" -> <<"p", "r", "e", "v", "i", "e", "w">>
      [] w = "alpha" -> <<"a", "l", "p", "h", "a">>
      [] w = "beta" -> <<"b", "e", "t", "a">>
      [] w = "pre" -> <<"p", "r", "e">>
      [] w = "rc" -> <<"r", "c">>
      [] w = "post" -> <<"p", "o", "s", "t">>
      [] w = "rev" -> <<"r", "e", "v">>
      [] w = "dev" -> <<"d", "e", "v">>
      [] OTHER -> <<w>>

\* The first keyword of kws at position i, 0 when none is there.
KwIndex(s, i, kws) == First({k \in DOMAIN kws : KwAt(s, i, Chars(kws[k][1]))})

\* [-_\.]?
SepEnd(s, i) == IF At(s, i) \in {"-", "_", "."} THEN i + 1 ELSE i

\* ([0-9]+)? from j2 to j3: <<end, letter, number>>; _parse_letter_version
\* reads a missing number as 0.
SegmentNumber(s, j2, j3, letter) ==
    <<j3, letter, IF j3 > j2 THEN ToInt(Slice(s, j2, j3)) ELSE 0>>

SegmentTail(s, j2, letter) == SegmentNumber(s, j2, DigitsEnd(s, j2), letter)

\* The segment with its k-th keyword at j0, absent when k = 0.
SegmentAt(s, i, j0, kws, k) ==
    IF k = 0 THEN <<i, "", 0>>
    ELSE SegmentTail(s, SepEnd(s, j0 + Len(Chars(kws[k][1]))), kws[k][2])

SegmentFrom(s, i, j0, kws) == SegmentAt(s, i, j0, kws, KwIndex(s, j0, kws))

\* [-_\.]? (letter) [-_\.]? ([0-9]+)? at position i, for the pre, the
\* alternative post and the dev segment: <<end, letter, number>>, with
\* end = i when the segment is absent.
LetterSegment(s, i, kws) == SegmentFrom(s, i, SepEnd(s, i), kws)

PostNumber(s, i, e) == <<e, "post", ToInt(Slice(s, i + 1, e))>>

\* The post segment: (?:-([0-9]+)) | (?:[-_\.]?(post|rev|r)[-_\.]?([0-9]+)?)
PostSegment(s, i) ==
    IF At(s, i) = "-" /\ At(s, i + 1) \in DigitSet
      THEN PostNumber(s, i, DigitsEnd(s, i + 1))
      ELSE LetterSegment(s, i, PostKeywords)

\* (?:\.[0-9]+)* from position i.
RECURSIVE ReleaseEnd(_, _)
ReleaseStep(s, i, e) == IF e = i THEN i ELSE ReleaseEnd(s, e)
ReleaseEnd(s, i) == ReleaseStep(s, i, DotNumEnd(s, i))

LocalSet == DigitSet \cup LetterSet

RECURSIVE LocalRunEnd(_, _)
LocalRunEnd(s, i) ==
    IF At(s, i) \in LocalSet THEN LocalRunEnd(s, i + 1) ELSE i

\* [a-z0-9]+(?:[-_\.][a-z0-9]+)* from position i; i when it does not match.
RECURSIVE LocalEnd(_, _)
LocalStep(s, i, e) ==
    IF e = i THEN i
    ELSE IF At(s, e) \in {"-", "_", "."} /\ At(s, e + 1) \in LocalSet
      THEN LocalEnd(s, e + 1)
    ELSE e
LocalEnd(s, i) == LocalStep(s, i, LocalRunEnd(s, i))

\* s.split(sep) for separators in seps: the sequence of the parts.
RECURSIVE SplitOn(_, _)
SplitAtCut(s, seps, c) ==
    IF c = 0 THEN <<s>>
    ELSE <<Slice(s, 1, c)>> \o SplitOn(Slice(s, c + 1, Len(s) + 1), seps)
SplitOn(s, seps) == SplitAtCut(s, seps, First({i \in DOMAIN s : s[i] \in seps}))

IsNumber(s) == s # <<>> /\ \A i \in DOMAIN s : s[i] \in DigitSet

\* The segments of a version string as VERSION_PATTERN reads them between
\* ^ and $ (the epoch "N!" needs a "!", which no string of the model holds):
\* the release from i0 to r, then the pre, post and dev segments, then the
\* local label from l0 + 1 to l.
StdRecord(s, i0, r, pre, pst, dev, l0, l) ==
    [ok |-> r > i0 /\ l = Len(s) + 1,
     release |-> Slice(s, i0, r),
     hasPre |-> pre[1] > r, pre |-> <<pre[2], pre[3]>>,
     hasPost |-> pst[1] > pre[1], post |-> pst[3],
     hasDev |-> dev[1] > pst[1], dev |-> dev[3],
     hasLocal |-> l > l0, local |-> Slice(s, l0 + 1, l)]

StdLocal(s, i0, r, pre, pst, dev, l0, le) ==
    StdRecord(s, i0, r, pre, pst, dev, l0,
              IF At(s, l0) = "+" /\ le > l0 + 1 THEN le ELSE l0)

StdDev(s, i0, r, pre, pst, dev) ==
    StdLocal(s, i0, r, pre, pst, dev, dev[1], LocalEnd(s, dev[1] + 1))

StdPost(s, i0, r, pre, pst) ==
    StdDev(s, i0, r, pre, pst, LetterSegment(s, pst[1], DevKeywords))

StdPre(s, i0, r, pre) == StdPost(s, i0, r, pre, PostSegment(s, pre[1]))

StdRelease(s, i0, r) == StdPre(s, i0, r, LetterSegment(s, r, PreKeywords))

StdDigits(s, i0, r0) ==
    StdRelease(s, i0, IF r0 = i0 THEN i0 ELSE ReleaseEnd(s, r0))

StdFrom(s, i0) == StdDigits(s, i0, DigitsEnd(s, i0))

StdSegments(s) ==
    StdFrom(s, IF At(s, 1) # "" /\ LowerChar[At(s, 1)] = "v" THEN 2 ELSE 1)

\* re.match(f"^{version.VERSION_PATTERN}$", v, flags=re.IGNORECASE|re.VERBOSE)
IsStandard(v) == StdSegments(v).ok

\* Drop the trailing zeros of a release.
RECURSIVE StripZeros(_)
StripZeros(r) ==
    IF r # <<>> /\ r[Len(r)] = 0 THEN StripZeros(SubSeq(r, 1, Len(r) - 1)) ELSE r

PreRank(l) == CASE l = "a" -> 1 [] l = "b" -> 2 [] OTHER -> 3

IntsOf(parts) == [i \in DOMAIN parts |-> ToInt(parts[i])]

\* A part of the local segment is <<1, n, <<>>>> for the number n and
\* <<0, 0, s>> for the lower-cased string s.
LocalKey(parts) ==
    [i \in DOMAIN parts |->
        IF IsNumber(parts[i]) THEN <<1, ToInt(parts[i]), <<>>>>
        ELSE <<0, 0, LowerStr(parts[i])>>]

\* Version._cmpkey of the segments g, with -Infinity and Infinity as the
\* least and the greatest first number of their field.
KeyOf(g) ==
    [release |-> StripZeros(IntsOf(SplitOn(g.release, {"."}))),
     pre |-> IF g.hasPre THEN <<1, PreRank(g.pre[1]), g.pre[2]>>
             ELSE IF ~g.hasPost /\ g.hasDev THEN <<0, 0, 0>>
             ELSE <<2, 0, 0>>,
     post |-> IF g.hasPost THEN <<1, g.post>> ELSE <<0, 0>>,
     dev |-> IF g.hasDev THEN <<0, g.dev>> ELSE <<1, 0>>,
     local |-> IF g.hasLocal THEN LocalKey(SplitOn(g.local, {"-", "_", "."}))
               ELSE <<>>]

\* version.parse(v)._key for a v that matches.
VersionKey(v) == KeyOf(StdSegments(v))

\* Python's order on tuples of int: -1, 0 or 1.
RECURSIVE CmpInts(_, _)
CmpInts(x, y) ==
    IF x = <<>> /\ y = <<>> THEN 0
    ELSE IF x = <<>> THEN -1
    ELSE IF y = <<>> THEN 1
    ELSE IF Head(x) < Head(y) THEN -1
    ELSE IF Head(x) > Head(y) THEN 1
    ELSE CmpInts(Tail(x), Tail(y))

CmpPart(p, q) ==
    IF p[1] # q[1] THEN (IF p[1] < q[1] THEN -1 ELSE 1)
    ELSE IF p[2] # q[2] THEN (IF p[2] < q[2] THEN -1 ELSE 1)
    ELSE IF p[3] = q[3] THEN 0
    ELSE IF StrLess(p[3], q[3]) THEN -1 ELSE 1

RECURSIVE CmpLocal(_, _)
CmpLocalStep(x, y, c) == IF c # 0 THEN c ELSE CmpLocal(Tail(x), Tail(y))
CmpLocal(x, y) ==
    IF x = <<>> /\ y = <<>> THEN 0
    ELSE IF x = <<>> THEN -1
    ELSE IF y = <<>> THEN 1
    ELSE CmpLocalStep(x, y, CmpPart(Head(x), Head(y)))

\* The first of the orders c that is not 0, 0 when all are.
FirstOrder(c, nz) == IF nz = 0 THEN 0 ELSE c[nz]
Decided(c) == FirstOrder(c, First({i \in DOMAIN c : c[i] # 0}))

\* The order of two Version keys: -1, 0 or 1.
CmpKey(k1, k2) ==
    Decided(<< CmpInts(k1.release, k2.release), CmpInts(k1.pre, k2.pre),
               CmpInts(k1.post, k2.post), CmpInts(k1.dev, k2.dev),
               CmpLocal(k1.local, k2.local) >>)

(***************************************************************************)
(* VersionCheck: comparison                                                *)
(***************************************************************************)
\* The outcome of a call: a returned value, or a raised exception.
Ret(v) == [exc |-> "", val |-> v]
Raise(e) == [exc |-> e, val |-> None]

_SUPPORTED_COMPARISONS == <<"<", "<=", "==", ">=", ">">>

\* Python's order on str: -1, 0 or 1.
CmpStr(s, t) == IF s = t THEN 0 ELSE IF StrLess(s, t) THEN -1 ELSE 1

\* _execute_comparison(a, op, b), with c the order of a and b (-1: a < b,
\* 0: a == b, 1: a > b) under the comparisons of their type, Version or str.
_execute_comparison(c, op) ==
    IF op \notin Range(_SUPPORTED_COMPARISONS)
      THEN Raise("Unsupported comparison")
    ELSE IF op = "<" THEN Ret(c < 0)
    ELSE IF op = "<=" THEN Ret(c <= 0)
    ELSE IF op = "==" THEN Ret(c = 0)
    ELSE IF op = ">=" THEN Ret(c >= 0)
    ELSE IF op = ">" THEN Ret(c > 0)
    ELSE Raise("Impossible comparison result")

\* f"{v}{s}": None is formatted as the text None.
Format(v, s) == v \o (IF s = None THEN <<"N", "o", "n", "e">> ELSE s)

\* StarToZero with the wildcard replaced by "9".
StarToNine(v) == [i \in DOMAIN v |-> IF v[i] = "*" THEN "9" ELSE v[i]]

\* re.sub(r"\*", "0", v)
StarToZero(v) == [i \in DOMAIN v |-> IF v[i] = "*" THEN "0" ELSE v[i]]

\* if "*" in v: v = re.sub(r"\*", "0", v)
NoWildcard(v) == IF HasStar(v) THEN StarToZero(v) ELSE v

\* (s1 and "*" in s1) or (s2 and "*" in s2)
AnyWildcard(s1, s2) == (s1 # None /\ HasStar(s1)) \/ (s2 # None /\ HasStar(s2))

\* NormalizeSplit with only the first suffix dropped for a wildcard.
NormalizeFirstOnly(p1, p2, drop) ==
    <<Format(NoWildcard(p1[1]), IF drop THEN None ELSE p1[2]),
      Format(NoWildcard(p2[1]), p2[2])>>

\* The body of _normalize_wildcard after the two calls of _split_suffix,
\* which gave p1 and p2; drop: one of the suffixes holds a wildcard.
NormalizeSplit(p1, p2, drop) ==
    <<Format(NoWildcard(p1[1]), IF drop THEN None ELSE p1[2]),
      Format(NoWildcard(p2[1]), IF drop THEN None ELSE p2[2])>>

NormalizePair(p1, p2) == NormalizeSplit(p1, p2, AnyWildcard(p1[2], p2[2]))

_normalize_wildcard(v1_in, v2_in) ==
    NormalizePair(_split_suffix(v1_in), _split_suffix(v2_in))

\* The first place where the zero-padded parts differ: -1 or 1, 0 when they
\* are equal (the loop over range(max(len(v1_parts), len(v2_parts)))).
RECURSIVE CmpParts(_, _)
CmpPartsStep(x, y, p1, p2) ==
    IF p1 < p2 THEN -1
    ELSE IF p1 > p2 THEN 1
    ELSE CmpParts(IF x = <<>> THEN x ELSE Tail(x), IF y = <<>> THEN y ELSE Tail(y))
CmpParts(x, y) ==
    IF x = <<>> /\ y = <<>> THEN 0
    ELSE CmpPartsStep(x, y, IF x = <<>> THEN 0 ELSE Head(x),
                            IF y = <<>> THEN 0 ELSE Head(y))

\* [int(x) for x in v.split(".")] raises ValueError unless every part is a
\* number.
IntParts(v) == IntsOf(SplitOn(v, {"."}))
AnyNotNumber(parts) == \E i \in DOMAIN parts : ~IsNumber(parts[i])
IntPartsFail(v) == AnyNotNumber(SplitOn(v, {"."}))

\* CustomOrder with the two branches for one missing suffix exchanged.
CustomOrderSwapped(c, s1, op, s2) ==
    IF c < 0 THEN Ret(op \in {"<", "<="})
    ELSE IF c > 0 THEN Ret(op \in {">", ">="})
    ELSE IF s1 = None /\ s2 = None THEN Ret(op \in {"==", "<=", ">="})
    ELSE IF s1 = None THEN Ret(op \in {">", ">="})
    ELSE IF s2 = None THEN Ret(op \in {"<", "<="})
    ELSE _execute_comparison(CmpStr(s1, s2), op)

\* The try block of _custom_compare after the numeric parts are parsed,
\* with c the first difference of the zero-padded parts.
CustomOrder(c, s1, op, s2) ==
    IF c < 0 THEN Ret(op \in {"<", "<="})
    ELSE IF c > 0 THEN Ret(op \in {">", ">="})
    ELSE IF s1 = None /\ s2 = None THEN Ret(op \in {"==", "<=", ">="})
    ELSE IF s1 = None THEN Ret(op \in {"<", "<="})
    ELSE IF s2 = None THEN Ret(op \in {">", ">="})
    ELSE _execute_comparison(CmpStr(s1, s2), op)

\* The try block of _custom_compare.
CustomTry(v1, s1, op, v2, s2) ==
    IF IntPartsFail(v1) \/ IntPartsFail(v2) THEN Raise("ValueError")
    ELSE CustomOrder(CmpParts(IntParts(v1), IntParts(v2)), s1, op, s2)

\* except Exception: the strings themselves are compared.
CustomExcept(r, v1_in, op, v2_in) ==
    IF r.exc = "" THEN r ELSE _execute_comparison(CmpStr(v1_in, v2_in), op)

CustomSplit(p1, p2, v1_in, op, v2_in) ==
    CustomExcept(CustomTry(p1[1], p1[2], op, p2[1], p2[2]), v1_in, op, v2_in)

\* _split_suffix runs before the try block: where re.match finds nothing,
\* match.group raises AttributeError, which nothing catches.
_custom_compare(v1_in, op, v2_in) ==
    IF PatternEnd(v1_in) = 1 \/ PatternEnd(v2_in) = 1 THEN Raise("AttributeError")
    ELSE CustomSplit(_split_suffix(v1_in), _split_suffix(v2_in), v1_in, op, v2_in)

\* compare from "# Standard semantic version" on.
CompareNormalized(v1, op, v2) ==
    IF IsStandard(v1) /\ IsStandard(v2)
      THEN _execute_comparison(CmpKey(VersionKey(v1), VersionKey(v2)), op)
      ELSE _custom_compare(v1, op, v2)

ComparePair(n, op) == CompareNormalized(n[1], op, n[2])

\* compare with only the first string validated.
CompareFirstValidated(v1_in, op, v2_in) ==
    IF ~is_valid(v1_in) THEN Ret(FALSE)
    ELSE ComparePair(IF HasStar(v1_in) \/ HasStar(v2_in)
                       THEN _normalize_wildcard(v1_in, v2_in)
                       ELSE <<v1_in, v2_in>>, op)

compare(v1_in, op, v2_in) ==
    IF ~is_valid(v1_in) \/ ~is_valid(v2_in) THEN Ret(FALSE)
    ELSE ComparePair(IF HasStar(v1_in) \/ HasStar(v2_in)
                       THEN _normalize_wildcard(v1_in, v2_in)
                       ELSE <<v1_in, v2_in>>, op)

(***************************************************************************)
(* VersionCheck: range containment                                         *)
(***************************************************************************)
\* Python's "not x" for x a str or None.
Falsy(x) == x = None \/ x = <<>>

\* "not r" for the outcome r of compare; raises when compare did.
Negated(r) == IF r.exc # "" THEN r ELSE Ret(~r.val)

\* The test of a bound with a bound that is_valid rejects passed over as if
\* it were not given.
BoundFailsSkipInvalid(v_in, op, bound) ==
    IF Falsy(bound) \/ ~is_valid(bound) THEN Ret(FALSE)
    ELSE Negated(compare(v_in, op, bound))

\* "min and not compare(v_in, op, min)": the outcome of the test.
BoundFails(v_in, op, bound) ==
    IF Falsy(bound) THEN Ret(FALSE) ELSE Negated(compare(v_in, op, bound))

Wrapped == Raise("Error while executing checkin version covered by range")

\* The try block of is_covered, with lo and hi the outcomes of the tests of
\* the lower and of the upper bound.
CoveredBy(lo, hi) ==
    IF lo.exc # "" THEN Wrapped
    ELSE IF lo.val THEN Ret(FALSE)
    ELSE IF hi.exc # "" THEN Wrapped
    ELSE IF hi.val THEN Ret(FALSE)
    ELSE Ret(TRUE)

\* is_covered with the upper bound looked at only when no lower bound is
\* given.
IsCoveredEitherBound(v_in, min, max, including) ==
    IF Falsy(min) /\ Falsy(max) THEN Ret(TRUE)
    ELSE IF ~Falsy(min)
      THEN CoveredBy(BoundFails(v_in, IF including THEN ">=" ELSE ">", min), Ret(FALSE))
      ELSE CoveredBy(Ret(FALSE), BoundFails(v_in, IF including THEN "<=" ELSE "<", max))

is_covered(v_in, min, max, including) ==
    IF Falsy(min) /\ Falsy(max) THEN Ret(TRUE)
    ELSE CoveredBy(BoundFails(v_in, IF including THEN ">=" ELSE ">", min),
                   BoundFails(v_in, IF including THEN "<=" ELSE "<", max))

(***************************************************************************)
(* VersionCheck: extraction                                                *)
(***************************************************************************)
\* _EXTRACTION_PATTERNS: (\d+(?:\.\d+){k}) followed by a delimited suffix
\* group, a one-letter suffix group, or no second group.
_EXTRACTION_PATTERNS ==
    << [k |-> 3, sfx |-> "delim"], [k |-> 2, sfx |-> "delim"],
       [k |-> 1, sfx |-> "delim"], [k |-> 0, sfx |-> "delim"],
       [k |-> 3, sfx |-> "letter"], [k |-> 2, sfx |-> "letter"],
       [k |-> 1, sfx |-> "letter"], [k |-> 0, sfx |-> "letter"],
       [k |-> 3, sfx |-> "none"], [k |-> 2, sfx |-> "none"],
       [k |-> 1, sfx |-> "none"], [k |-> 0, sfx |-> "none"] >>

\* (?:\.\d+){k} from position i: the position after it, 0 when it does not
\* match.
RECURSIVE DotNumTimes(_, _, _)
DotNumTimes(s, i, k) ==
    IF k = 0 THEN i
    ELSE IF DotNumEnd(s, i) = i THEN 0
    ELSE DotNumTimes(s, DotNumEnd(s, i), k - 1)

\* The second group of pat at position n: the position after it, 0 when it
\* does not match.
GroupTwoEnd(pat, s, n) ==
    IF pat.sfx = "none" THEN n
    ELSE IF pat.sfx = "letter"
      THEN IF At(s, n) \in LetterSet THEN n + 1 ELSE 0
    ELSE IF At(s, n) \in DelimSet /\ At(s, n + 1) \in SuffixRunSet
      THEN RunEnd(s, n + 1) ELSE 0

MatchEnds(n, e) == IF n = 0 \/ e = 0 THEN <<0, 0>> ELSE <<n, e>>

MatchGroupOne(pat, s, n) == MatchEnds(n, IF n = 0 THEN 0 ELSE GroupTwoEnd(pat, s, n))

MatchDigits(pat, s, i, d) ==
    MatchGroupOne(pat, s, IF d = i THEN 0 ELSE DotNumTimes(s, d, pat.k))

\* The pattern pat at position i: <<end of group 1, end of the match>>, with
\* <<0, 0>> when it does not match there.
MatchAt(pat, s, i) == MatchDigits(pat, s, i, DigitsEnd(s, i))

\* re.findall(pattern, str) from position i on: the matches from left to
\* right, none overlapping another, each the sequence of its groups.  For a
\* pattern of one group Python gives the list of the strings themselves, for
\* a pattern of two groups a list of tuples.
RECURSIVE FindAllFrom(_, _, _)
Found(pat, s, i, m) ==
    IF m[2] = 0 THEN FindAllFrom(pat, s, i + 1)
    ELSE <<IF pat.sfx = "none" THEN <<Slice(s, i, m[1])>>
           ELSE <<Slice(s, i, m[1]), Slice(s, m[1], m[2])>> >>
         \o FindAllFrom(pat, s, m[2])
FindAllFrom(pat, s, i) ==
    IF i > Len(s) THEN <<>> ELSE Found(pat, s, i, MatchAt(pat, s, i))

findall(pat, s) == FindAllFrom(pat, s, 1)

IsTuple(m) == Len(m) > 1

\* The loop of find_higher over versions, with v the best so far; is_valid
\* hands a tuple to re.match, which raises TypeError.
RECURSIVE HigherLoop(_, _)
HigherStep(versions, v, ver, r) ==
    IF r.exc # "" THEN r
    ELSE HigherLoop(Tail(versions), IF r.val THEN ver ELSE v)
HigherItem(versions, v, m) ==
    IF IsTuple(m) THEN Raise("TypeError")
    ELSE IF ~is_valid(m[1]) THEN HigherLoop(Tail(versions), v)
    ELSE HigherStep(versions, v, m[1], compare(m[1], ">", v))
HigherLoop(versions, v) ==
    IF versions = <<>> THEN Ret(v) ELSE HigherItem(versions, v, Head(versions))

\* return v if v != "0" else None
HigherResult(r) ==
    IF r.exc # "" THEN r ELSE IF r.val # <<"0">> THEN r ELSE Ret(None)

find_higher(versions) == HigherResult(HigherLoop(versions, <<"0">>))

\* The loop of extract over _EXTRACTION_PATTERNS from the i-th pattern on.
RECURSIVE ExtractFrom(_, _)
ExtractStep(str, i, version) ==
    IF version.exc # "" THEN version
    ELSE IF ~Falsy(version.val) THEN version
    ELSE ExtractFrom(str, i + 1)
ExtractFrom(str, i) ==
    IF i > Len(_EXTRACTION_PATTERNS) THEN Ret(None)
    ELSE ExtractStep(str, i, find_higher(findall(_EXTRACTION_PATTERNS[i], str)))

extract(str) == ExtractFrom(str, 1)

(***************************************************************************)
(* utils/configuration.py: import_config and deep_merge                    *)
(***************************************************************************)
\* Python values held in a dictionary, each with its type. A dictionary held
\* in a dictionary of the heap is held by reference; a dictionary written in
\* an argument carries its items.
NoneType == [type |-> "NoneType"]
BoolValue(b) == [type |-> "bool", val |-> b]
IntValue(n) == [type |-> "int", val |-> n]
StrValue(t) == [type |-> "str", val |-> t]
ListValue(l) == [type |-> "list", val |-> l]
DictValue(items) == [type |-> "dict", val |-> items]
DictRef(r) == [type |-> "dict", ref |-> r]

\* {}: the dictionary with no key.
Empty == [key \in {} |-> NoneType]

\* target[key] = value, for target a dictionary of the heap h.
SetItem(h, target, key, value) ==
    [h EXCEPT ![target] =
        [k \in DOMAIN h[target] \cup {key} |-> IF k = key THEN value ELSE h[target][k]]]

RECURSIVE deep_merge(_, _, _)
RECURSIVE MergeItems(_, _, _, _)

\* One turn of the loop of deep_merge: a dictionary of source is merged
\* into the dictionary target already holds under the key, in place; any
\* other value replaces what target holds.
MergeItem(h, target, source, key) ==
    IF key \in DOMAIN h[target] /\ h[target][key].type = "dict"
                                /\ source[key].type = "dict"
      THEN deep_merge(h, h[target][key].ref, source[key].val)
      ELSE SetItem(h, target, key, source[key])

MergeNext(h, target, source, keys, key) ==
    MergeItems(MergeItem(h, target, source, key), target, source, keys \ {key})

MergeItems(h, target, source, keys) ==
    IF keys = {} THEN h
    ELSE MergeNext(h, target, source, keys, CHOOSE key \in keys : TRUE)

\* deep_merge(target, source) returns target itself; this is the heap it
\* leaves, with target the reference of a dictionary of the heap h.
deep_merge(h, target, source) == MergeItems(h, target, source, DOMAIN source)

\* import_config(input_config, default_config) for default_config a
\* dictionary of the heap: the dictionary returned, by reference, and the
\* heap left.
import_config(h, input_config, default_config) ==
    [ref |-> default_config,
     heap |-> deep_merge(h, default_config,
                         IF input_config.type = "NoneType" THEN Empty
                         ELSE input_config.val)]

(***************************************************************************)
(* utils/http.py: class HTTPy                                              *)
(***************************************************************************)
\* Two of the strings of _USER_AGENTS.
_USER_AGENTS == <<"Chrome on Windows", "Firefox on Linux">>

\* The two dictionaries the class statement creates: the value of
\* HTTPy._DEFAULT_CONFIG and the value of its key "headers".
_DEFAULT_CONFIG == "_DEFAULT_CONFIG"
Headers == "_DEFAULT_CONFIG['headers']"

DefaultHeaders ==
    [key \in {"Accept", "Accept-Language", "Cache-Control"} |->
        CASE key = "Accept" ->
               StrValue("text/html,application/xhtml+xml,application/xml,application/json")
          [] key = "Accept-Language" -> StrValue("en-US,en,pt-BR,pt")
          [] key = "Cache-Control" -> StrValue("no-cache")]

DefaultConfig ==
    [key \in {"randomize-agent", "max-retries", "retry_status_codes",
              "success_status_codes", "timeout", "headers"} |->
        CASE key = "randomize-agent" -> BoolValue(TRUE)
          [] key = "max-retries" -> IntValue(3)
          [] key = "retry_status_codes" -> ListValue(<<429, 500, 502, 503, 504>>)
          [] key = "success_status_codes" ->
               ListValue(<<200, 201, 202, 203, 204, 205, 206, 207, 208>>)
          [] key = "timeout" -> IntValue(10)
          [] key = "headers" -> DictRef(Headers)]

\* The heap once the class statement has run.
ClassHeap ==
    [r \in {_DEFAULT_CONFIG, Headers} |->
        IF r = _DEFAULT_CONFIG THEN DefaultConfig ELSE DefaultHeaders]

\* What a dictionary of the heap h holds, the dictionaries it refers to
\* read through.
Items(h, r) ==
    [key \in DOMAIN h[r] |->
        IF h[r][key].type = "dict" THEN DictValue(h[h[r][key].ref]) ELSE h[r][key]]

(***************************************************************************)
(* The inputs of the model                                                 *)
(***************************************************************************)
\* The most numeric components of a generated version string.
MaxParts == 2
\* The most components of the version strings of the three-way and the
\* range specifications.
MaxPartsSmall == 1
\* The most characters of a generated text.
MaxText == 4

Components == {"0", "1"}

\* The components c[1..k] joined by ".".
RECURSIVE Join(_)
Join(c) ==
    IF Len(c) = 1 THEN <<c[1]>>
    ELSE Join(SubSeq(c, 1, Len(c) - 1)) \o <<".", c[Len(c)]>>

\* The numeric prefixes of at most n components, the last of two or more
\* possibly the wildcard.
Numerics(n) ==
    UNION { {Join(c) : c \in [1..k -> Components]} : k \in 1..n }
    \cup UNION { {Join(c) \o <<".", "*">> : c \in [1..k -> Components]} : k \in 1..(n - 1) }

\* No suffix, and suffixes of each shape: one letter that is a pre-release
\* letter and one that is not, the wildcard, a delimited tail that
\* packaging does not read, a post-release number and a local label.
Suffixes ==
    { <<>>, <<"a">>, <<"N">>, <<"*">>, <<"_", "x">>, <<"-", "1">>, <<"+", "a">> }

Generated(n) == {num \o sfx : num \in Numerics(n), sfx \in Suffixes}

\* The version strings the specification names.
Examples ==
    { <<"1", ".", "2", ".", "*">>, <<"1", ".", "2", ".", "9">>,
      <<"1", ".", "2", ".", "0">>, <<"1", ".", "2">>,
      <<"1", ".", "*", ".", "0">>, <<"1", ".", "5", ".", "1">>,
      <<"2", ".", "3", "4", "6", ".", "3", "_", "l", "t", "s">>,
      <<"2", ".", "3", "4", "6", ".", "3">>,
      <<"2", ".", "0", "-", "b", "e", "t", "a">>, <<"2", ".", "0">>,
      <<"1", "0">>, <<"9">>,
      <<"n", "o", "t", "-", "a", "-", "v", "e", "r", "s", "i", "o", "n">> }

\* Strings is_valid rejects.
Malformed == { <<>>, <<"x">>, <<"1", ".">>, <<"1", "a", "b">> }

Inputs == Generated(MaxParts) \cup Examples \cup Malformed

SmallInputs == Generated(MaxPartsSmall) \cup {<<"1", ".", "0">>, <<"1", ".", "*">>}

\* The bounds of a range: version strings with no suffix, a pre-release
\* letter or a tail packaging does not read; a malformed string, the empty
\* string and None.
RangeBounds ==
    {num \o sfx : num \in Numerics(MaxPartsSmall), sfx \in {<<>>, <<"a">>, <<"_", "x">>}}
    \cup {<<"x">>, <<>>, None}

Operators == Range(_SUPPORTED_COMPARISONS) \cup {"!=", "=<"}

TextAlphabet == {"0", "1", ".", "-", "a", " "}

ExampleTexts ==
    { <<"b", "u", "i", "l", "d", " ", "2", ".", "4", ".", "1", "-", "r", "c", "1",
        " ", "s", "t", "a", "b", "l", "e">>,
      <<"v", "1", ".", "0", " ", "t", "h", "e", "n", " ", "v", "2", ".", "0", " ",
        "t", "h", "e", "n", " ", "v", "1", ".", "5">>,
      <<"0", ".", "0", ".", "0">>,
      <<"0", ".", "0", ".", "0", " ", "1", ".", "5">> }

Texts == UNION {[1..n -> TextAlphabet] : n \in 0..MaxText} \cup ExampleTexts

\* The largest "max-retries" of a configuration passed to HTTPy, and the
\* most HTTPy objects constructed.
MaxRetries == 1
MaxInstances == 2

\* The values a configuration passed to HTTPy gives to a key.
ConfigValues(key) ==
    CASE key = "max-retries" -> {IntValue(n) : n \in 0..MaxRetries}
      [] key = "randomize-agent" -> {BoolValue(FALSE)}
      [] key = "retry_status_codes" -> {ListValue(<<>>), ListValue(<<404, 500>>)}
      [] key = "success_status_codes" -> {ListValue(<<200, 500>>)}
      [] key = "headers" ->
           {DictValue("Accept" :> StrValue("application/json")),
            DictValue("X-Token" :> StrValue("t"))}

\* The configurations passed to HTTPy: None, {}, one key, and two keys.
Configs ==
    {NoneType, DictValue(Empty)}
    \cup UNION { {DictValue(key :> value) : value \in ConfigValues(key)} :
                 key \in {"max-retries", "randomize-agent", "retry_status_codes",
                          "success_status_codes", "headers"} }
    \cup {DictValue("max-retries" :> IntValue(0)
                    @@ "headers" :> DictValue("Accept" :> StrValue("application/json")))}

\* What session.request does: it returns a response with a status code, or
\* raises requests.RequestException or another Exception.
Statuses == {200, 404, 500}
Raised == {"RequestException", "Exception"}

(***************************************************************************)
(* The calls                                                               *)
(***************************************************************************)
VARIABLES
    v1_in, op, v2_in,       \* the arguments of compare and _custom_compare
    v3_in,                  \* a third version string
    v_in, min, max, including, \* the arguments of is_covered
    str,                    \* the argument of extract
    pc,                     \* "idle", then the name of the function called
    ret,                    \* its outcome
    heap,                   \* the dictionaries that outlive a call, by reference
    _config, _session,      \* self._config and self._session of each HTTPy
    self,                   \* the HTTPy whose _execute_request is running
    retries, response,      \* the locals of _execute_request
    attempts                \* the outcomes of its calls of session.request

http == <<heap, _config, _session, self, retries, response, attempts>>

vars == <<v1_in, op, v2_in, v3_in, v_in, min, max, including, str, pc, ret,
          heap, _config, _session, self, retries, response, attempts>>

NoCompare == v1_in = None /\ op = "" /\ v2_in = None /\ v3_in = None
NoRange == v_in = None /\ min = None /\ max = None /\ including = FALSE
NoExtract == str = None
NoCall == self = 0 /\ retries = 0 /\ response = NoneType /\ attempts = <<>>
NoHTTP == heap = <<>> /\ _config = <<>> /\ _session = <<>> /\ NoCall
Idle == pc = "idle" /\ ret = None

\* One call of compare or of _custom_compare on two strings.
Init ==
    /\ v1_in \in Inputs /\ v2_in \in Inputs /\ op \in Operators /\ v3_in = None
    /\ NoRange /\ NoExtract /\ NoHTTP /\ Idle

Compare ==
    /\ pc = "idle"
    /\ ret' = compare(v1_in, op, v2_in)
    /\ pc' = "compare"
    /\ UNCHANGED <<v1_in, op, v2_in, v3_in, v_in, min, max, including, str>>
    /\ UNCHANGED http

CustomCompare ==
    /\ pc = "idle"
    /\ ret' = _custom_compare(v1_in, op, v2_in)
    /\ pc' = "_custom_compare"
    /\ UNCHANGED <<v1_in, op, v2_in, v3_in, v_in, min, max, including, str>>
    /\ UNCHANGED http

Next == Compare \/ CustomCompare

Spec == Init /\ [][Next]_vars

\* Three calls of compare with "<": on the first and the second string, on
\* the second and the third, on the first and the third.
InitThree ==
    /\ v1_in \in SmallInputs /\ v2_in \in SmallInputs /\ v3_in \in SmallInputs
    /\ op = "<"
    /\ NoRange /\ NoExtract /\ NoHTTP /\ pc = "idle" /\ ret = <<>>

CompareFirstSecond ==
    /\ pc = "idle"
    /\ ret' = Append(ret, compare(v1_in, op, v2_in))
    /\ pc' = "first_second"
    /\ UNCHANGED <<v1_in, op, v2_in, v3_in, v_in, min, max, including, str>>
    /\ UNCHANGED http

CompareSecondThird ==
    /\ pc = "first_second"
    /\ ret' = Append(ret, compare(v2_in, op, v3_in))
    /\ pc' = "second_third"
    /\ UNCHANGED <<v1_in, op, v2_in, v3_in, v_in, min, max, including, str>>
    /\ UNCHANGED http

CompareFirstThird ==
    /\ pc = "second_third"
    /\ ret' = Append(ret, compare(v1_in, op, v3_in))
    /\ pc' = "first_third"
    /\ UNCHANGED <<v1_in, op, v2_in, v3_in, v_in, min, max, including, str>>
    /\ UNCHANGED http

NextThree == CompareFirstSecond \/ CompareSecondThird \/ CompareFirstThird

SpecThree == InitThree /\ [][NextThree]_vars

\* One call of is_covered; a bound is a string, the empty string or None.
InitRange ==
    /\ v_in \in SmallInputs \cup Malformed
    /\ min \in RangeBounds
    /\ max \in RangeBounds
    /\ including \in BOOLEAN
    /\ NoCompare /\ NoExtract /\ NoHTTP /\ Idle

IsCovered ==
    /\ pc = "idle"
    /\ ret' = is_covered(v_in, min, max, including)
    /\ pc' = "is_covered"
    /\ UNCHANGED <<v1_in, op, v2_in, v3_in, v_in, min, max, including, str>>
    /\ UNCHANGED http

NextRange == IsCovered

SpecRange == InitRange /\ [][NextRange]_vars

\* One call of extract.
InitExtract ==
    /\ str \in Texts
    /\ NoCompare /\ NoRange /\ NoHTTP /\ Idle

Extract ==
    /\ pc = "idle"
    /\ ret' = extract(str)
    /\ pc' = "extract"
    /\ UNCHANGED <<v1_in, op, v2_in, v3_in, v_in, min, max, including, str>>
    /\ UNCHANGED http

NextExtract == Extract

SpecExtract == InitExtract /\ [][NextExtract]_vars

\* HTTPy objects and their requests.
InitHTTP ==
    /\ heap = ClassHeap /\ _config = <<>> /\ _session = <<>> /\ NoCall
    /\ NoCompare /\ NoRange /\ NoExtract /\ Idle

\* self._config[key] of the HTTPy i.
Config(i, key) == heap[_config[i]][key].val

\* "status in self._config[key]".
StatusIn(i, status, key) == status \in Range(Config(i, key))

\* A response of session.request, and an exception it raised.
Response(status) == [status_code |-> status]
Exception(name) == [raised |-> name]

\* __init__ from the outcome r of import_config on: self._config is the
\* dictionary import_config returned, and _create_session makes
\* self._config['headers'] the headers of the session.
_create_session(r) ==
    /\ heap' = r.heap
    /\ _config' = Append(_config, r.ref)
    /\ _session' = Append(_session, [headers |-> r.heap[r.ref]["headers"]])

\* HTTPy(config=config).
HTTPy ==
    /\ pc = "idle"
    /\ Len(_config) < MaxInstances
    /\ \E config \in Configs :
         _create_session(import_config(heap, config, _DEFAULT_CONFIG))
    /\ self' = 0 /\ retries' = 0 /\ response' = NoneType /\ attempts' = <<>>
    /\ ret' = None
    /\ UNCHANGED <<v1_in, op, v2_in, v3_in, v_in, min, max, including, str, pc>>

\* get or post on an HTTPy, up to the while loop of _execute_request,
\* with no headers among the keyword arguments.
_execute_request ==
    /\ pc = "idle"
    /\ \E i \in 1..Len(_config) : self' = i
    /\ response' = NoneType
    /\ retries' = 0
    /\ attempts' = <<>>
    /\ ret' = None
    /\ pc' = "while"
    /\ UNCHANGED <<v1_in, op, v2_in, v3_in, v_in, min, max, including, str>>
    /\ UNCHANGED <<heap, _config, _session>>

\* "self._session.headers.update({"User-Agent": agent})" when
\* self._config["randomize-agent"].
RandomizeAgent(agent) ==
    heap' = IF Config(self, "randomize-agent")
              THEN SetItem(heap, _session[self].headers.ref, "User-Agent", StrValue(agent))
              ELSE heap

\* A response handled with the loop left on a success status only.
RespondedRetryAll(status) ==
    /\ response' = Response(status)
    /\ attempts' = Append(attempts, Response(status))
    /\ IF StatusIn(self, status, "success_status_codes")
         THEN retries' = retries /\ pc' = "after"
         ELSE retries' = retries + 1 /\ pc' = "while"

\* session.request returned a response with this status: the loop is left
\* on a success status and on a status that is not retried.
Responded(status) ==
    /\ response' = Response(status)
    /\ attempts' = Append(attempts, Response(status))
    /\ IF StatusIn(self, status, "success_status_codes")
            \/ ~StatusIn(self, status, "retry_status_codes")
         THEN retries' = retries /\ pc' = "after"
         ELSE retries' = retries + 1 /\ pc' = "while"

\* session.request raised: both except clauses go on to "retries += 1".
Failed(name) ==
    /\ response' = response
    /\ attempts' = Append(attempts, Exception(name))
    /\ retries' = retries + 1
    /\ pc' = "while"

\* One turn of the while loop.
Attempt ==
    /\ pc = "while"
    /\ retries <= Config(self, "max-retries")
    /\ \E agent \in Range(_USER_AGENTS) : RandomizeAgent(agent)
    /\ \/ \E status \in Statuses : Responded(status)
       \/ \E name \in Raised : Failed(name)
    /\ UNCHANGED <<v1_in, op, v2_in, v3_in, v_in, min, max, including, str>>
    /\ UNCHANGED <<_config, _session, self, ret>>

\* The end of _execute_request, from the break or from the loop condition.
Leave ==
    /\ pc = "after" \/ (pc = "while" /\ retries > Config(self, "max-retries"))
    /\ ret' = IF response = NoneType
                  \/ ~StatusIn(self, response.status_code, "success_status_codes")
               THEN Raise("Unsuccessful request")
               ELSE Ret(response)
    /\ pc' = "idle"
    /\ UNCHANGED <<v1_in, op, v2_in, v3_in, v_in, min, max, including, str>>
    /\ UNCHANGED http

NextHTTP == HTTPy \/ _execute_request \/ Attempt \/ Leave

SpecHTTP == InitHTTP /\ [][NextHTTP]_vars

(***************************************************************************)
(* Properties                                                              *)
(***************************************************************************)
\* C1: transitivity of compare: when compare(a, "<", b) and
\* compare(b, "<", c) are true for valid a, b, c, compare(a, "<", c) is true.
C1_Transitive ==
    (/\ pc = "first_third"
     /\ is_valid(v1_in) /\ is_valid(v2_in) /\ is_valid(v3_in)
     /\ ret[1] = Ret(TRUE) /\ ret[2] = Ret(TRUE))
    => ret[3] = Ret(TRUE)

\* C2: reflexivity of compare: for every valid v, with or without a
\* wildcard, compare(v, "==", v) returns true and does not raise.
C2_Reflexive ==
    (pc = "compare" /\ is_valid(v1_in) /\ v2_in = v1_in /\ op = "==")
    => ret = Ret(TRUE)

\* compare(v, "==", v) has returned true for a v whose numeric part and
\* whose suffix are both the wildcard.
C2_Witness ==
    /\ pc = "compare" /\ op = "==" /\ v2_in = v1_in
    /\ v1_in = <<"1", ".", "*", "*">>
    /\ ret = Ret(TRUE)

\* C3: compare fails closed: when one of a, b is not valid, compare(a, op, b)
\* returns false and does not raise, whatever the operator.
C3_InvalidIsFalse ==
    (pc = "compare" /\ (~is_valid(v1_in) \/ ~is_valid(v2_in)))
    => ret = Ret(FALSE)

\* compare has returned false for an invalid string and an operator it does
\* not support.
C3_Witness ==
    /\ pc = "compare" /\ ~is_valid(v1_in) /\ is_valid(v2_in)
    /\ op \notin Range(_SUPPORTED_COMPARISONS)
    /\ ret = Ret(FALSE)

\* C4: an unsupported operator is always an error: for valid a and b and an
\* operator outside _SUPPORTED_COMPARISONS, compare raises.
C4_UnsupportedRaises ==
    (/\ pc = "compare" /\ is_valid(v1_in) /\ is_valid(v2_in)
     /\ op \notin Range(_SUPPORTED_COMPARISONS))
    => ret.exc # ""

\* A valid version string without suffix whose last numeric component is the
\* wildcard, and one without suffix and without wildcard.
WildcardLast(v) ==
    /\ is_valid(v) /\ Len(v) > 2
    /\ v[Len(v) - 1] = "." /\ v[Len(v)] = "*"
Concrete(v) == is_valid(v) /\ PatternEnd(v) = NumericEnd(v) /\ ~HasStar(v)

\* The numeric components before the wildcard of v.
Leading(v) == IntParts(SubSeq(v, 1, Len(v) - 2))

Zeroed(v) == [i \in DOMAIN v |-> IF v[i] = "*" THEN "0" ELSE v[i]]

\* The suffix of a valid version string holds a wildcard.
WildcardSuffix(v) == _split_suffix(v)[2] # None /\ HasStar(_split_suffix(v)[2])

\* C6: wildcard normalization is a replacement by 0 and nothing else: for
\* valid a and b, one of them with a wildcard numeric component and neither
\* with a wildcard in its suffix, and a supported operator,
\* compare(a, op, b) equals compare(a0, op, b0), with a0 and b0 the strings
\* a and b with each "*" replaced by "0".
C6_NormalizeIsZeroing ==
    (/\ pc = "compare" /\ is_valid(v1_in) /\ is_valid(v2_in)
     /\ HasStar(v1_in) \/ HasStar(v2_in)
     /\ ~WildcardSuffix(v1_in) /\ ~WildcardSuffix(v2_in)
     /\ op \in Range(_SUPPORTED_COMPARISONS))
    => ret = compare(Zeroed(v1_in), op, Zeroed(v2_in))

\* Two valid version strings whose numeric parts are equal after
\* zero-padding, the first with a suffix and the second without.
SuffixedAgainstPlain(a, b) ==
    /\ is_valid(a) /\ is_valid(b)
    /\ ~IntPartsFail(_split_suffix(a)[1]) /\ ~IntPartsFail(_split_suffix(b)[1])
    /\ CmpParts(IntParts(_split_suffix(a)[1]), IntParts(_split_suffix(b)[1])) = 0
    /\ _split_suffix(a)[2] # None /\ _split_suffix(b)[2] = None

\* C7 as stated: in _custom_compare, of two valid versions with equal
\* numeric parts the one WITH the suffix is the lesser:
\* _custom_compare(suffixed, "<", plain) is true and
\* _custom_compare(suffixed, ">", plain) is false.
C7_SuffixedIsLesser ==
    (pc = "_custom_compare" /\ SuffixedAgainstPlain(v1_in, v2_in))
    => /\ op = "<" => ret = Ret(TRUE)
       /\ op = ">" => ret = Ret(FALSE)

\* C7 as amended: in _custom_compare, of two valid versions with equal
\* numeric parts the one WITHOUT the suffix is the lesser:
\* _custom_compare(suffixed, "<", plain) is false and
\* _custom_compare(suffixed, ">", plain) is true.
C7_SuffixedIsGreater ==
    (pc = "_custom_compare" /\ SuffixedAgainstPlain(v1_in, v2_in))
    => /\ op = "<" => ret = Ret(FALSE)
       /\ op = ">" => ret = Ret(TRUE)

\* _custom_compare("2.346.3_lts", ">", "2.346.3") has returned true.
C7_Witness ==
    /\ pc = "_custom_compare" /\ op = ">"
    /\ v1_in = <<"2", ".", "3", "4", "6", ".", "3", "_", "l", "t", "s">>
    /\ v2_in = <<"2", ".", "3", "4", "6", ".", "3">>
    /\ ret = Ret(TRUE)

\* C8: extract never raises: for every text extract returns a version string
\* or None, and extract("build 2.4.1-rc1 stable") returns "2.4.1-rc1".
C8_ExtractNeverRaises ==
    pc = "extract"
    => /\ ret.exc = ""
       /\ str = <<"b", "u", "i", "l", "d", " ", "2", ".", "4", ".", "1", "-", "r",
                  "c", "1", " ", "s", "t", "a", "b", "l", "e">>
          => ret = Ret(<<"2", ".", "4", ".", "1", "-", "r", "c", "1">>)

\* The text of each match of the i-th extraction pattern in text, and the
\* patterns that match somewhere in it.
MatchTexts(i, text) ==
    LET ms == findall(_EXTRACTION_PATTERNS[i], text)
    IN  {IF IsTuple(ms[k]) THEN ms[k][1] \o ms[k][2] ELSE ms[k][1] : k \in DOMAIN ms}
Yielding(text) == {i \in DOMAIN _EXTRACTION_PATTERNS : MatchTexts(i, text) # {}}

\* C9: what extract returns, when it returns: the highest under compare of
\* the valid matches of the first of the 12 patterns that matches at all,
\* and None only when no pattern has a valid match; so also for a text
\* whose version tokens are all zero-valued.
C9_ExtractSelection ==
    (pc = "extract" /\ ret.exc = "")
    => IF \A i \in Yielding(str) : \A m \in MatchTexts(i, str) : ~is_valid(m)
         THEN ret.val = None
         ELSE LET first == CHOOSE i \in Yielding(str) : \A j \in Yielding(str) : i <= j
                  ms == {m \in MatchTexts(first, str) : is_valid(m)}
              IN  /\ ret.val \in ms
                  /\ \A m \in ms : compare(m, ">", ret.val) # Ret(TRUE)

\* A bound of is_covered that is given.
Given(bound) == bound # None

\* C10: range containment: for a valid v and bounds that are valid or
\* absent, is_covered(v, min, max, including) is true exactly when every
\* bound that is given holds: compare(v, ">=", min) and compare(v, "<=", max)
\* when including, compare(v, ">", min) and compare(v, "<", max) when not;
\* with both bounds given both are checked.
C10_RangeContainment ==
    (/\ pc = "is_covered" /\ is_valid(v_in)
     /\ ~Given(min) \/ is_valid(min)
     /\ ~Given(max) \/ is_valid(max))
    => ret = Ret(/\ Given(min) =>
                      compare(v_in, IF including THEN ">=" ELSE ">", min) = Ret(TRUE)
                 /\ Given(max) =>
                      compare(v_in, IF including THEN "<=" ELSE "<", max) = Ret(TRUE))

\* is_covered has returned false for a version that is not below its lower
\* bound and is above its upper bound.
C10_Witness ==
    /\ pc = "is_covered" /\ including
    /\ v_in = <<"1">> /\ min = <<"0">> /\ max = <<"0">>
    /\ ret = Ret(FALSE)

\* The case of C11: a call of is_covered with a bound that is a non-empty
\* string, and with a version or such a bound that is_valid rejects.
MalformedCall ==
    /\ pc = "is_covered"
    /\ ~Falsy(min) \/ ~Falsy(max)
    /\ \/ ~is_valid(v_in)
       \/ ~Falsy(min) /\ ~is_valid(min)
       \/ ~Falsy(max) /\ ~is_valid(max)

\* C11 as stated: when at least one bound is given and the version or a
\* given bound does not pass is_valid, is_covered raises an error to the
\* caller instead of returning a boolean.
C11_MalformedRaises == MalformedCall => ret.exc # ""

\* C11 as amended: when at least one bound is given and the version or a
\* given bound does not pass is_valid, is_covered raises nothing and returns
\* false: compare answers false for a string is_valid rejects, and
\* is_covered reads that answer as a bound that does not hold.
C11_MalformedIsFalse == MalformedCall => ret = Ret(FALSE)

\* is_covered has returned false for a valid version against a lower bound
\* that is_valid rejects.
C11_Witness ==
    /\ pc = "is_covered"
    /\ v_in = <<"1">> /\ min = <<"x">> /\ max = None
    /\ ret = Ret(FALSE)

\* An attempt of the running or the last call of _execute_request after
\* which the loop is left: a response whose status is in
\* success_status_codes or is not in retry_status_codes.
Stops(attempt) ==
    /\ "status_code" \in DOMAIN attempt
    /\ \/ StatusIn(self, attempt.status_code, "success_status_codes")
       \/ ~StatusIn(self, attempt.status_code, "retry_status_codes")

Succeeds(attempt) ==
    /\ "status_code" \in DOMAIN attempt
    /\ StatusIn(self, attempt.status_code, "success_status_codes")

\* _execute_request has returned or raised.
Left == pc = "idle" /\ self # 0

C13_DefaultsUnchanged ==
    Items(heap, _DEFAULT_CONFIG) = Items(ClassHeap, _DEFAULT_CONFIG)

=============================================================================
